---- MODULE Spec2Model ----
(***************************************************************************)
(* The RTSP capture pipeline of backend/capture_service:                   *)
(*   RTSPWatcher            rtsp_watcher.py  one loop thread per stream     *)
(*   SkyhawkCaptureService  app.py           frame queue, consumer loop,    *)
(*                                           start/stop of the watchers     *)
(*   MotionDetector         motion_filter.py the single shared motion gate  *)
(*   InferenceClient        inference_client.py                             *)
(*   DetectionPusher        detection_pusher.py                             *)
(* and the functions that are checked one call at a time:                  *)
(*   RiskScorer, _get_risk_level, detect   ml_service                      *)
(*   CaptureConfig, initialize, predict, push_detection  capture_service   *)
(*   DetectionPipeline.store_detection     auto_detection_pipeline.py      *)
(* and the sync cycle of EdgeSyncAgent      edge/edge_sync_agent.py         *)
(*                                                                         *)
(* Every statement that touches shared state is one step of the thread     *)
(* that executes it.  Time is abstracted: a sleep is a step that may be    *)
(* taken at any later moment, and its length is recorded where a claim is  *)
(* about lengths.                                                          *)
(***************************************************************************)
EXTENDS Integers, Sequences, FiniteSets, TLC

\* ---------------------------------------------------------------- bounds
\* Frames a stream delivers before its reads only fail (bounds frame_count).
MaxFrames == 2
\* Capacity of the frame queue, scaled down from Queue(maxsize=100).
QueueMaxsize == 2
\* Loop threads one watcher may ever spawn (successful start() calls).
MaxThreads == 2
\* Failed connects a caller of start() may pile up (bounds connection_attempts).
MaxAttempts == 4
\* Detections in one list handed to the risk scorer.
MaxDetections == 4
\* Calls of initialize(), start() and stop() made on one capture service.
MaxCalls == 2
\* Sync cycles the edge agent begins.
MaxCycles == 3
\* Camera detections one sync cycle collects, scaled down from randint(0, 3).
MaxCameraDetections == 1

\* ------------------------------------------------------ program constants
\* RTSPWatcher.max_retries
max_retries == 3
\* time.sleep(5) before a reconnect attempt
RetrySleepSeconds == 5
\* time.sleep(2) in the watch loop's except branch
ErrorSleepSeconds == 2
\* CaptureConfig.INFERENCE_INTERVAL default, the watcher's sample interval
INFERENCE_INTERVAL == 5

\* Two of the enabled streams of CaptureConfig.RTSP_STREAMS, by list index.
Streams == {1, 2}
ThreadIds == 1..MaxThreads

VARIABLES
    \* ---- RTSPWatcher fields, one per stream
    running,              \* self.running
    cap,                  \* self.cap: "none" | "open" | "released"
    thread,               \* self.thread: 0 (None) or the id of the last thread
    frame_count,          \* self.frame_count
    connection_attempts,  \* self.connection_attempts
    \* ---- execution contexts
    tpc,                  \* tpc[w][t]: position of loop thread t of watcher w
    cpc,                  \* cpc[w]: position of the caller inside start()/stop()
    \* ---- SkyhawkCaptureService
    frame_queue,          \* self.frame_queue
    svc_running,          \* self.running
    cons,                 \* position of _process_frames
    cur,                  \* frame_data while a frame is being processed, else NoFrame
    result,               \* result of _process_frames: "unset", "dict" or "None"
    prev_frame,           \* MotionDetector.prev_frame: 0 (None) or the stream it came from
    in_flight,            \* calls of predict() and push_detection() that have not returned
    opc,                  \* position of SkyhawkCaptureService.start()/stop()
    oi,                   \* index of the watcher the start()/stop() loop is at
    \* ---- history
    waits,                \* waits[w]: sleeps before the connect attempts since the last success
    lastSeq,              \* lastSeq[w]: frame_count of the last frame of w the consumer dequeued
    \* ---- one call of a function, for the functions checked call by call
    call,                 \* the function called and its arguments
    ret,                  \* what the call returned
    \* ---- EdgeSyncAgent
    is_running,           \* self.is_running
    offline_buffer,       \* self.offline_buffer
    epc,                  \* position of start_sync_service
    cycles,               \* sync cycles begun so far
    local_data,           \* local_data of the current cycle
    processed_data,       \* processed_data of the current cycle
    sync_result           \* sync_result['success'] of the last sync: "unset", TRUE or FALSE

wvars == <<running, cap, thread, frame_count, connection_attempts>>
\* the capture pipeline
pvars == <<running, cap, thread, frame_count, connection_attempts, tpc, cpc,
           frame_queue, svc_running, cons, cur, result, prev_frame, in_flight,
           opc, oi, waits, lastSeq>>
\* the call of a function
fvars == <<call, ret>>
\* the edge sync agent
evars == <<is_running, offline_buffer, epc, cycles, local_data, processed_data,
           sync_result>>
vars == <<running, cap, thread, frame_count, connection_attempts, tpc, cpc,
          frame_queue, svc_running, cons, cur, result, prev_frame, in_flight,
          opc, oi, waits, lastSeq, call, ret, is_running, offline_buffer, epc,
          cycles, local_data, processed_data, sync_result>>

NoFrame == [stream |-> 0, frame_count |-> 0]

\* Positions of a loop thread in which it is inside a blocking call.
Blocking == {"retry_sleep", "connect_read", "read",
             "interval_sleep", "err_sleep"}

Alive(w, t) == tpc[w][t] \notin {"unborn", "exited"}

\* ------------------------------------------------------------------ Init
\* RTSPWatcher.__init__ and SkyhawkCaptureService.__init__
WatcherInit ==
    /\ running = [w \in Streams |-> FALSE]
    /\ cap = [w \in Streams |-> "none"]
    /\ thread = [w \in Streams |-> 0]
    /\ connection_attempts = [w \in Streams |-> 0]
    /\ tpc = [w \in Streams |-> [t \in ThreadIds |-> "unborn"]]
    /\ cpc = [w \in Streams |-> "idle"]
    /\ waits = [w \in Streams |-> <<>>]

\* No frame has been read yet: frame_count = 0, Queue(maxsize=...) is empty
NoFramesYet ==
    /\ frame_count = [w \in Streams |-> 0]
    /\ frame_queue = <<>>

\* No call of the inference client or of the pusher has been made
NothingInFlight == [predict |-> 0, push_detection |-> 0]

ServiceInit ==
    /\ svc_running = FALSE
    /\ cons = "unborn"
    /\ cur = NoFrame
    /\ result = "unset"
    /\ prev_frame = 0
    /\ in_flight = NothingInFlight
    /\ lastSeq = [w \in Streams |-> 0]

\* No function has been called
NoCall == [op |-> "none"]
NoRet == [pending |-> TRUE]

NoCallYet == call = NoCall /\ ret = NoRet

\* EdgeSyncAgent.__init__; start_sync_service has not been called
EdgeAgentInit ==
    /\ is_running = FALSE
    /\ offline_buffer = <<>>
    /\ epc = "idle"
    /\ cycles = 0
    /\ local_data = <<>>
    /\ processed_data = <<>>
    /\ sync_result = "unset"

Init ==
    /\ WatcherInit /\ NoFramesYet /\ ServiceInit /\ opc = "init" /\ oi = 1
    /\ NoCallYet
    /\ EdgeAgentInit

\* ------------------------------------------------------------ the queue
\* A queue without a capacity: put() never finds it full.
QueueNeverFull(q) == FALSE

\* queue.Queue: full() for a Queue(maxsize=n)
QueueFull(q) == Len(q) >= QueueMaxsize

\* queue.Queue.put(item, block=False) on a queue that is not full
QueuePut(q, item) == Append(q, item)

\* A frame counter that is not advanced.
FrameCountKept(n) == n

\* self.frame_count += 1
NextFrameCount(n) == n + 1

\* frame_data built by _watch_loop
FrameData(w, n) == [stream |-> w, frame_count |-> n]

\* Seconds a loop thread sleeps in each of its sleeping positions.
SleepSeconds(p) ==
    CASE p = "retry_sleep" -> RetrySleepSeconds
      [] p = "interval_sleep" -> INFERENCE_INTERVAL
      [] p = "err_sleep" -> ErrorSleepSeconds
      [] OTHER -> 0

\* ------------------------------------------------- RTSPWatcher.connect()
\* self.cap = cv2.VideoCapture(self.stream_url)
ConnectOpen(w) == cap' = [cap EXCEPT ![w] = "open"]

\* ret is True: self.last_frame = frame; self.connection_attempts = 0; return True
ConnectOk(w) ==
    /\ cap[w] = "open"
    /\ connection_attempts' = [connection_attempts EXCEPT ![w] = 0]
    /\ waits' = [waits EXCEPT ![w] = <<>>]
    /\ UNCHANGED cap

\* ret is False, or self.cap is gone or was released under the read: the except
\* branch counts the failure, releases and forgets the connection; return False
ConnectFail(w) ==
    /\ connection_attempts[w] < MaxAttempts
    /\ connection_attempts' = [connection_attempts EXCEPT ![w] = @ + 1]
    /\ cap' = [cap EXCEPT ![w] = "none"]
    /\ UNCHANGED waits

\* ------------------------------------------------ RTSPWatcher._watch_loop
SetT(w, t, p) == tpc' = [tpc EXCEPT ![w][t] = p]

\* while self.running: ... if not self.cap: if attempts < max_retries: ... continue
LoopExit(w, t) ==
    /\ tpc[w][t] = "loop"
    /\ ~running[w]
    /\ SetT(w, t, "exited")
    /\ UNCHANGED <<wvars, cpc, frame_queue, svc_running, cons, cur, prev_frame,
                   opc, oi, waits, lastSeq>>
    /\ UNCHANGED <<result, in_flight, fvars, evars>>

LoopRetry(w, t) ==
    /\ tpc[w][t] = "loop"
    /\ running[w]
    /\ cap[w] = "none"
    /\ connection_attempts[w] < max_retries
    /\ SetT(w, t, "retry_sleep")
    /\ UNCHANGED <<wvars, cpc, frame_queue, svc_running, cons, cur, prev_frame,
                   opc, oi, waits, lastSeq>>
    /\ UNCHANGED <<result, in_flight, fvars, evars>>

\* retries exhausted: `continue` straight back to the loop test, no sleep
LoopGivenUp(w, t) ==
    /\ tpc[w][t] = "loop"
    /\ running[w]
    /\ cap[w] = "none"
    /\ connection_attempts[w] >= max_retries
    /\ SetT(w, t, "loop")
    /\ UNCHANGED <<wvars, cpc, frame_queue, svc_running, cons, cur, prev_frame,
                   opc, oi, waits, lastSeq>>
    /\ UNCHANGED <<result, in_flight, fvars, evars>>

LoopRead(w, t) ==
    /\ tpc[w][t] = "loop"
    /\ running[w]
    /\ cap[w] # "none"
    /\ SetT(w, t, "read")
    /\ UNCHANGED <<wvars, cpc, frame_queue, svc_running, cons, cur, prev_frame,
                   opc, oi, waits, lastSeq>>
    /\ UNCHANGED <<result, in_flight, fvars, evars>>

\* time.sleep(5) is over and self.connect() has built its connection:
\* self.cap = cv2.VideoCapture(self.stream_url)
RetrySleep(w, t) ==
    /\ tpc[w][t] = "retry_sleep"
    /\ ConnectOpen(w)
    /\ SetT(w, t, "connect_read")
    /\ waits' = [waits EXCEPT ![w] = Append(@, SleepSeconds("retry_sleep"))]
    /\ UNCHANGED <<running, thread, frame_count, connection_attempts, cpc,
                   frame_queue, svc_running, cons, cur, prev_frame, opc, oi,
                   lastSeq>>
    /\ UNCHANGED <<result, in_flight, fvars, evars>>

\* connect()'s verifying read delivers a frame
LoopConnectOk(w, t) ==
    /\ tpc[w][t] = "connect_read"
    /\ ConnectOk(w)
    /\ SetT(w, t, "loop")
    /\ UNCHANGED <<running, thread, frame_count, cpc, frame_queue, svc_running,
                   cons, cur, prev_frame, opc, oi, lastSeq>>
    /\ UNCHANGED <<result, in_flight, fvars, evars>>

\* connect()'s verifying read fails
LoopConnectFail(w, t) ==
    /\ tpc[w][t] = "connect_read"
    /\ ConnectFail(w)
    /\ SetT(w, t, "loop")
    /\ UNCHANGED <<running, thread, frame_count, cpc, frame_queue, svc_running,
                   cons, cur, prev_frame, opc, oi, lastSeq>>
    /\ UNCHANGED <<result, in_flight, fvars, evars>>

\* ret, frame = self.cap.read() delivers a frame; frame_count += 1;
\* frame_queue.put(frame_data, block=False) succeeds; time.sleep(interval)
ReadFramePut(w, t) ==
    /\ tpc[w][t] = "read"
    /\ cap[w] = "open"
    /\ frame_count[w] < MaxFrames
    /\ ~QueueFull(frame_queue)
    /\ frame_count' = [frame_count EXCEPT ![w] = NextFrameCount(@)]
    /\ frame_queue' = QueuePut(frame_queue, FrameData(w, frame_count'[w]))
    /\ SetT(w, t, "interval_sleep")
    /\ UNCHANGED <<running, cap, thread, connection_attempts, cpc, svc_running,
                   cons, cur, prev_frame, opc, oi, waits, lastSeq>>
    /\ UNCHANGED <<result, in_flight, fvars, evars>>

\* the same, but put() raises queue.Full: caught by `except Exception`,
\* logged as an error, time.sleep(2)
ReadFrameFull(w, t) ==
    /\ tpc[w][t] = "read"
    /\ cap[w] = "open"
    /\ frame_count[w] < MaxFrames
    /\ QueueFull(frame_queue)
    /\ frame_count' = [frame_count EXCEPT ![w] = NextFrameCount(@)]
    /\ SetT(w, t, "err_sleep")
    /\ UNCHANGED <<running, cap, thread, connection_attempts, cpc, frame_queue,
                   svc_running, cons, cur, prev_frame, opc, oi, waits, lastSeq>>
    /\ UNCHANGED <<result, in_flight, fvars, evars>>

\* ret is False (also: the connection was released under the read):
\* self.cap.release(); self.cap = None; continue
ReadFail(w, t) ==
    /\ tpc[w][t] = "read"
    /\ cap[w] # "none"
    /\ cap' = [cap EXCEPT ![w] = "none"]
    /\ SetT(w, t, "loop")
    /\ UNCHANGED <<running, thread, frame_count, connection_attempts, cpc,
                   frame_queue, svc_running, cons, cur, prev_frame, opc, oi,
                   waits, lastSeq>>
    /\ UNCHANGED <<result, in_flight, fvars, evars>>

\* self.cap is None by now (AttributeError), or the read of a connection that
\* was released under it raises: caught by `except Exception`, time.sleep(2)
ReadRaise(w, t) ==
    /\ tpc[w][t] = "read"
    /\ cap[w] \in {"none", "released"}
    /\ SetT(w, t, "err_sleep")
    /\ UNCHANGED <<wvars, cpc, frame_queue, svc_running, cons, cur, prev_frame,
                   opc, oi, waits, lastSeq>>
    /\ UNCHANGED <<result, in_flight, fvars, evars>>

\* time.sleep(interval) or time.sleep(2) is over
SleepDone(w, t) ==
    /\ tpc[w][t] \in {"interval_sleep", "err_sleep"}
    /\ SetT(w, t, "loop")
    /\ UNCHANGED <<wvars, cpc, frame_queue, svc_running, cons, cur, prev_frame,
                   opc, oi, waits, lastSeq>>
    /\ UNCHANGED <<result, in_flight, fvars, evars>>

\* --------------------------------------------- the caller of start()/stop()
\* The call returns.  Under SkyhawkCaptureService the `for watcher in
\* self.watchers` loop of start() or stop() moves on to the next watcher.
Return(w) ==
    /\ cpc' = [cpc EXCEPT ![w] = "idle"]
    /\ oi' = IF opc \in {"starting", "stopping"} THEN oi + 1 ELSE oi
    /\ UNCHANGED opc

\* A free thread slot for threading.Thread(...): the lowest unused id.
FreeThread(w) == CHOOSE t \in ThreadIds :
                    /\ tpc[w][t] = "unborn"
                    /\ \A u \in ThreadIds : u < t => tpc[w][u] # "unborn"

\* ---------------------------------------------------- RTSPWatcher.start()
\* A start() that does not test self.running.
NeverAlreadyRunning(w) == FALSE

\* `if self.running:` of start()
AlreadyRunning(w) == running[w]

\* if self.running: logger.warning(...); return
StartAlreadyRunning(w) ==
    /\ cpc[w] = "start_check"
    /\ AlreadyRunning(w)
    /\ Return(w)
    /\ UNCHANGED <<wvars, tpc, frame_queue, svc_running, cons, cur, prev_frame,
                   waits, lastSeq>>
    /\ UNCHANGED <<result, in_flight, fvars, evars>>

\* self.connect() begins: self.cap = cv2.VideoCapture(self.stream_url)
StartConnectOpen(w) ==
    /\ cpc[w] = "start_check"
    /\ ~AlreadyRunning(w)
    /\ ConnectOpen(w)
    /\ cpc' = [cpc EXCEPT ![w] = "start_read"]
    /\ UNCHANGED <<running, thread, frame_count, connection_attempts, tpc,
                   frame_queue, svc_running, cons, cur, prev_frame, opc, oi,
                   waits, lastSeq>>
    /\ UNCHANGED <<result, in_flight, fvars, evars>>

\* if not self.connect(): logger.error(...); return
StartConnectFail(w) ==
    /\ cpc[w] = "start_read"
    /\ ConnectFail(w)
    /\ Return(w)
    /\ UNCHANGED <<running, thread, frame_count, tpc, frame_queue, svc_running,
                   cons, cur, prev_frame, lastSeq>>
    /\ UNCHANGED <<result, in_flight, fvars, evars>>

\* connect() returned True; self.running = True;
\* self.thread = threading.Thread(...); self.thread.start()
StartSpawn(w) ==
    /\ cpc[w] = "start_read"
    /\ ConnectOk(w)
    /\ running' = [running EXCEPT ![w] = TRUE]
    /\ thread' = [thread EXCEPT ![w] = FreeThread(w)]
    /\ SetT(w, FreeThread(w), "loop")
    /\ Return(w)
    /\ UNCHANGED <<frame_count, frame_queue, svc_running, cons, cur,
                   prev_frame, lastSeq>>
    /\ UNCHANGED <<result, in_flight, fvars, evars>>

\* ----------------------------------------------------- RTSPWatcher.stop()
\* No call of start() or stop() on w is in progress (the last one returned or raised).
CallerFree(w) == cpc[w] \in {"idle", "stop_raised"}

\* stop() is entered: self.running = False
StopSignal(w) ==
    /\ running' = [running EXCEPT ![w] = FALSE]
    /\ cpc' = [cpc EXCEPT ![w] = IF thread[w] = 0 THEN "stop_check" ELSE "stop_join"]

\* self.thread.join(timeout=5): the thread has ended
StopJoined(w) ==
    /\ cpc[w] = "stop_join"
    /\ tpc[w][thread[w]] = "exited"
    /\ cpc' = [cpc EXCEPT ![w] = "stop_check"]
    /\ UNCHANGED <<wvars, tpc, frame_queue, svc_running, cons, cur, prev_frame,
                   opc, oi, waits, lastSeq>>
    /\ UNCHANGED <<result, in_flight, fvars, evars>>

\* self.thread.join(timeout=5): the five seconds pass with the thread still
\* inside a blocking call
StopJoinTimeout(w) ==
    /\ cpc[w] = "stop_join"
    /\ tpc[w][thread[w]] \in Blocking
    /\ cpc' = [cpc EXCEPT ![w] = "stop_check"]
    /\ UNCHANGED <<wvars, tpc, frame_queue, svc_running, cons, cur, prev_frame,
                   opc, oi, waits, lastSeq>>
    /\ UNCHANGED <<result, in_flight, fvars, evars>>

\* `if self.cap:` is false: stop() returns
StopNoCap(w) ==
    /\ cpc[w] = "stop_check"
    /\ cap[w] = "none"
    /\ Return(w)
    /\ UNCHANGED <<wvars, tpc, frame_queue, svc_running, cons, cur, prev_frame,
                   waits, lastSeq>>
    /\ UNCHANGED <<result, in_flight, fvars, evars>>

\* `if self.cap:` is true
StopHasCap(w) ==
    /\ cpc[w] = "stop_check"
    /\ cap[w] # "none"
    /\ cpc' = [cpc EXCEPT ![w] = "stop_release"]
    /\ UNCHANGED <<wvars, tpc, frame_queue, svc_running, cons, cur, prev_frame,
                   opc, oi, waits, lastSeq>>
    /\ UNCHANGED <<result, in_flight, fvars, evars>>

\* self.cap.release() (self.cap is read again); stop() returns
StopRelease(w) ==
    /\ cpc[w] = "stop_release"
    /\ cap[w] # "none"
    /\ cap' = [cap EXCEPT ![w] = "released"]
    /\ Return(w)
    /\ UNCHANGED <<running, thread, frame_count, connection_attempts, tpc,
                   frame_queue, svc_running, cons, cur, prev_frame, waits,
                   lastSeq>>
    /\ UNCHANGED <<result, in_flight, fvars, evars>>

\* self.cap.release() with self.cap set to None since the test:
\* AttributeError leaves stop(), and SkyhawkCaptureService.stop() with it
StopReleaseRaise(w) ==
    /\ cpc[w] = "stop_release"
    /\ cap[w] = "none"
    /\ cpc' = [cpc EXCEPT ![w] = "stop_raised"]
    /\ opc' = IF opc = "stopping" THEN "stop_raised" ELSE opc
    /\ UNCHANGED <<wvars, tpc, frame_queue, svc_running, cons, cur, prev_frame,
                   oi, waits, lastSeq>>
    /\ UNCHANGED <<result, in_flight, fvars, evars>>

\* ------------------------------------- SkyhawkCaptureService.start()/stop()
\* initialize() succeeded; self.running = True
ServiceStart ==
    /\ opc = "init"
    /\ svc_running' = TRUE
    /\ opc' = "starting"
    /\ oi' = 1
    /\ UNCHANGED <<wvars, tpc, cpc, frame_queue, cons, cur, prev_frame, waits,
                   lastSeq>>
    /\ UNCHANGED <<result, in_flight, fvars, evars>>

\* for watcher in self.watchers: watcher.start(interval=...)
ServiceStartWatcher ==
    /\ opc = "starting"
    /\ oi \in Streams
    /\ CallerFree(oi)
    /\ cpc' = [cpc EXCEPT ![oi] = "start_check"]
    /\ UNCHANGED <<wvars, tpc, frame_queue, svc_running, cons, cur, prev_frame,
                   opc, oi, waits, lastSeq>>
    /\ UNCHANGED <<result, in_flight, fvars, evars>>

\* asyncio.run(self._process_frames())
ServiceRunConsumer ==
    /\ opc = "starting"
    /\ oi \notin Streams
    /\ opc' = "consuming"
    /\ cons' = "loop"
    /\ UNCHANGED <<wvars, tpc, cpc, frame_queue, svc_running, cur, prev_frame,
                   oi, waits, lastSeq>>
    /\ UNCHANGED <<result, in_flight, fvars, evars>>

\* KeyboardInterrupt ends asyncio.run() wherever the consumer is;
\* finally: self.stop(), whose first statement is self.running = False
ServiceInterrupt ==
    /\ opc = "consuming"
    /\ cons' = "ended"
    /\ cur' = NoFrame
    /\ opc' = "stopping"
    /\ svc_running' = FALSE
    /\ oi' = 1
    /\ result' = "unset"
    \* no dequeue follows: the history of dequeues is dropped
    /\ lastSeq' = [w \in Streams |-> 0]
    \* asyncio.run() cancels the coroutine and whatever it awaits
    /\ in_flight' = NothingInFlight
    /\ UNCHANGED <<wvars, tpc, cpc, frame_queue, prev_frame, waits>>
    /\ UNCHANGED <<fvars, evars>>

\* for watcher in self.watchers: watcher.stop()
ServiceStopWatcher ==
    /\ opc = "stopping"
    /\ oi \in Streams
    /\ CallerFree(oi)
    /\ StopSignal(oi)
    /\ UNCHANGED <<cap, thread, frame_count, connection_attempts, tpc,
                   frame_queue, svc_running, cons, cur, prev_frame, opc, oi,
                   waits, lastSeq>>
    /\ UNCHANGED <<result, in_flight, fvars, evars>>

\* stop() returns
ServiceStopped ==
    /\ opc = "stopping"
    /\ oi \notin Streams
    /\ opc' = "stopped"
    /\ UNCHANGED <<wvars, tpc, cpc, frame_queue, svc_running, cons, cur,
                   prev_frame, oi, waits, lastSeq>>
    /\ UNCHANGED <<result, in_flight, fvars, evars>>

\* -------------------------------- SkyhawkCaptureService._process_frames()
\* The coroutine `name` is called: one more call of it is in flight
Called(name) == in_flight' = [in_flight EXCEPT ![name] = @ + 1]

\* A call that is started as a task and not awaited: the consumer goes on
\* with the call still in flight.
NotAwaited(n) == n

\* `await`: the consumer goes on when the call it made has returned or raised
Awaited(n) == n - 1

\* The awaited call of coroutine `name` is over
Over(name) == in_flight' = [in_flight EXCEPT ![name] = Awaited(@)]

\* A consumer without the per-frame except clause: the exception leaves
\* _process_frames.
FrameExceptionEscapes == "crashed"

\* Where the consumer goes when a frame's processing raises:
\* except Exception as e: logger.error(...); await asyncio.sleep(0.5)
OnFrameException == "except_sleep"

\* frame_queue.get_nowait()
QueueGet(q) == [item |-> Head(q), rest |-> Tail(q)]

\* MotionDetector.detect_motion(frame): True when prev_frame is None, else
\* whatever the pixel difference to prev_frame gives (True when the
\* comparison raises)
MotionResults(prev) == IF prev = 0 THEN {TRUE} ELSE BOOLEAN

\* while self.running: fails, or the queue is empty:
\* await asyncio.sleep(0.1); continue
ConsumerIdle ==
    /\ cons = "loop"
    /\ ~svc_running \/ frame_queue = <<>>
    /\ cons' = IF ~svc_running THEN "ended" ELSE "poll_sleep"
    /\ UNCHANGED <<wvars, tpc, cpc, frame_queue, svc_running, cur, prev_frame,
                   opc, oi, waits, lastSeq>>
    /\ UNCHANGED <<result, in_flight, fvars, evars>>

\* frame_data = self.frame_queue.get_nowait();
\* if not self.motion_detector.detect_motion(frame): continue
\* (detect_motion keeps the frame as prev_frame; no await in between)
ConsumerDequeue ==
    /\ cons = "loop"
    /\ svc_running
    /\ frame_queue # <<>>
    /\ frame_queue' = QueueGet(frame_queue).rest
    /\ LET frame_data == QueueGet(frame_queue).item IN
         /\ lastSeq' = [lastSeq EXCEPT ![frame_data.stream] = frame_data.frame_count]
         /\ prev_frame' = frame_data.stream
         /\ \E has_motion \in MotionResults(prev_frame) :
               IF has_motion
                 THEN cons' = "infer" /\ cur' = frame_data /\ Called("predict")
                 ELSE cons' = "loop" /\ cur' = NoFrame /\ UNCHANGED in_flight
    /\ UNCHANGED <<wvars, tpc, cpc, svc_running, opc, oi, waits>>
    /\ UNCHANGED <<result, fvars, evars>>

\* asyncio.sleep(0.1) or asyncio.sleep(0.5) is over
ConsumerSleepDone ==
    /\ cons \in {"poll_sleep", "except_sleep"}
    /\ cons' = "loop"
    /\ UNCHANGED <<wvars, tpc, cpc, frame_queue, svc_running, cur, prev_frame,
                   opc, oi, waits, lastSeq>>
    /\ UNCHANGED <<result, in_flight, fvars, evars>>

\* ------------------------------------------- InferenceClient.predict()
\* Names inference_client.py imports (lines 1-6): asyncio is not among them.
ModuleImports == {"aiohttp", "logging", "base64", "cv2", "numpy"}

\* Status codes the model service answers with.
Statuses == {200, 404, 500, 503}

\* What session.post(...) does: it answers with a status, or it raises.
RequestExceptions == {"TimeoutError", "ClientConnectorError"}

Responses ==
    {[exception |-> "none", status |-> st] : st \in Statuses}
    \cup {[exception |-> e, status |-> 0] : e \in RequestExceptions}

\* predict(frame) for each behaviour of the request.  An exception inside the
\* try block reaches `except asyncio.TimeoutError:` first; evaluating that
\* name raises NameError when the module has not imported asyncio, and an
\* exception raised by an except clause is not handled by the clauses after it.
predict(resp) ==
    IF resp.exception = "none"
      THEN IF resp.status # 200
             THEN [raised |-> "none", value |-> "None"]
             ELSE [raised |-> "none", value |-> "dict"]
      ELSE IF "asyncio" \in ModuleImports
             THEN [raised |-> "none", value |-> "None"]
             ELSE [raised |-> "NameError", value |-> "unset"]

\* result = await self.inference_client.predict(frame): it answers 200
ConsumerInferOk ==
    /\ cons = "infer"
    /\ \E resp \in Responses :
          /\ predict(resp).raised = "none"
          /\ predict(resp).value = "dict"
          /\ result' = predict(resp).value
    /\ cons' = "check_result"
    /\ UNCHANGED <<wvars, tpc, cpc, frame_queue, svc_running, cur, prev_frame,
                   opc, oi, waits, lastSeq>>
    /\ Over("predict")
    /\ UNCHANGED <<fvars, evars>>

\* result = await self.inference_client.predict(frame): predict returns None
ConsumerInferNone ==
    /\ cons = "infer"
    /\ \E resp \in Responses :
          /\ predict(resp).raised = "none"
          /\ predict(resp).value = "None"
          /\ result' = predict(resp).value
    /\ cons' = "check_result"
    /\ UNCHANGED <<wvars, tpc, cpc, frame_queue, svc_running, cur, prev_frame,
                   opc, oi, waits, lastSeq>>
    /\ Over("predict")
    /\ UNCHANGED <<fvars, evars>>

\* predict() raises: the exception reaches the loop's except clause
ConsumerInferRaise ==
    /\ cons = "infer"
    /\ \E resp \in Responses : predict(resp).raised # "none"
    /\ cons' = OnFrameException
    /\ cur' = NoFrame
    /\ UNCHANGED <<wvars, tpc, cpc, frame_queue, svc_running, result, prev_frame,
                   opc, oi, waits, lastSeq>>
    /\ Over("predict")
    /\ UNCHANGED <<fvars, evars>>

\* A consumer that takes every result of predict() for a result.
ResultNeverMissing(r) == FALSE

\* `not result`
ResultMissing(r) == r = "None"

\* if not result: continue
ConsumerSkip ==
    /\ cons = "check_result"
    /\ ResultMissing(result)
    /\ cons' = "loop"
    /\ cur' = NoFrame
    /\ result' = "unset"
    /\ UNCHANGED <<wvars, tpc, cpc, frame_queue, svc_running, prev_frame,
                   opc, oi, waits, lastSeq>>
    /\ UNCHANGED in_flight
    /\ UNCHANGED <<fvars, evars>>

\* risk_score = result.get("avg_confidence", 0.5)
ConsumerScore ==
    /\ cons = "check_result"
    /\ ~ResultMissing(result)
    /\ cons' = "push"
    /\ UNCHANGED <<wvars, tpc, cpc, frame_queue, svc_running, cur, result,
                   prev_frame, opc, oi, waits, lastSeq>>
    /\ Called("push_detection")
    /\ UNCHANGED <<fvars, evars>>

\* await self.pusher.push_detection(frame_data, result, risk_score) builds
\* the record, logs it and returns True; the value is not looked at
ConsumerPush ==
    /\ cons = "push"
    /\ cons' = "loop"
    /\ cur' = NoFrame
    /\ result' = "unset"
    /\ UNCHANGED <<wvars, tpc, cpc, frame_queue, svc_running, prev_frame,
                   opc, oi, waits, lastSeq>>
    /\ Over("push_detection")
    /\ UNCHANGED <<fvars, evars>>

\* push_detection: building or logging the record raises (detections or
\* avg_confidence of the result is null): the except clause is entered
ConsumerPushRaise ==
    /\ cons = "push"
    /\ cons' = "push_failed"
    /\ UNCHANGED <<wvars, tpc, cpc, frame_queue, svc_running, cur, result,
                   prev_frame, opc, oi, waits, lastSeq>>
    /\ UNCHANGED in_flight
    /\ UNCHANGED <<fvars, evars>>

\* push_detection: logger.error(...); return False.  The consumer discards
\* the value and takes the next frame.
ConsumerPushFailed ==
    /\ cons = "push_failed"
    /\ cons' = "loop"
    /\ cur' = NoFrame
    /\ result' = "unset"
    /\ UNCHANGED <<wvars, tpc, cpc, frame_queue, svc_running, prev_frame,
                   opc, oi, waits, lastSeq>>
    /\ Over("push_detection")
    /\ UNCHANGED <<fvars, evars>>

\* ----------------------------------------------------------- specification
Threads ==
    \E w \in Streams : \E t \in ThreadIds :
        \/ LoopExit(w, t)
        \/ LoopRetry(w, t)
        \/ LoopGivenUp(w, t)
        \/ LoopRead(w, t)
        \/ RetrySleep(w, t)
        \/ LoopConnectOk(w, t)
        \/ LoopConnectFail(w, t)
        \/ ReadFramePut(w, t)
        \/ ReadFrameFull(w, t)
        \/ ReadFail(w, t)
        \/ ReadRaise(w, t)
        \/ SleepDone(w, t)

Calls ==
    \E w \in Streams :
        \/ StartConnectOpen(w)
        \/ StartConnectFail(w)
        \/ StartSpawn(w)
        \/ StopJoined(w)
        \/ StopJoinTimeout(w)
        \/ StopNoCap(w)
        \/ StopHasCap(w)
        \/ StopRelease(w)
        \/ StopReleaseRaise(w)

Service ==
    \/ ServiceStart
    \/ ServiceStartWatcher
    \/ ServiceRunConsumer
    \/ ServiceInterrupt
    \/ ServiceStopWatcher
    \/ ServiceStopped

Consumer ==
    \/ ConsumerIdle
    \/ ConsumerDequeue
    \/ ConsumerSleepDone
    \/ ConsumerInferOk
    \/ ConsumerInferNone
    \/ ConsumerInferRaise
    \/ ConsumerSkip
    \/ ConsumerScore
    \/ ConsumerPush
    \/ ConsumerPushRaise
    \/ ConsumerPushFailed

Next == Threads \/ Calls \/ Service \/ Consumer

\* The capture service as capture_loop.py runs it: start(), Ctrl+C, stop().
Spec == Init /\ [][Next]_vars

\* ------------------------------------------ a watcher driven by any caller
\* Some thread other than the loop calls start(interval) on watcher oi
ClientStart ==
    /\ opc = "direct"
    /\ CallerFree(oi)
    /\ \E t \in ThreadIds : tpc[oi][t] = "unborn"
    /\ cpc' = [cpc EXCEPT ![oi] = "start_check"]
    /\ UNCHANGED <<wvars, tpc, frame_queue, svc_running, cons, cur, prev_frame,
                   opc, oi, waits, lastSeq>>
    /\ UNCHANGED <<result, in_flight, fvars, evars>>

\* Some thread other than the loop calls stop() on watcher oi
ClientStop ==
    /\ opc = "direct"
    /\ CallerFree(oi)
    /\ StopSignal(oi)
    /\ UNCHANGED <<cap, thread, frame_count, connection_attempts, tpc,
                   frame_queue, svc_running, cons, cur, prev_frame, opc, oi,
                   waits, lastSeq>>
    /\ UNCHANGED <<result, in_flight, fvars, evars>>

WatcherNext ==
    \/ Threads
    \/ Calls
    \/ ClientStart
    \/ ClientStop
    \/ \E w \in Streams : StartAlreadyRunning(w)

\* The queue as the watchers other than w may have left it: empty, or
\* holding the first frame of one of them.
QueueLeftBy(w, counts) ==
    IF \A u \in Streams : counts[u] = 0
      THEN {<<>>}
      ELSE {<<FrameData(u, counts[u])>> : u \in {x \in Streams \ {w} : counts[x] > 0}}

\* One RTSPWatcher (oi) whose owner calls start() and stop() in any order,
\* on a queue it shares with the other watchers; nothing consumes the queue.
WatcherSpecInit ==
    \E w \in Streams :
        /\ WatcherInit
        /\ \E n \in 0..1 :
              /\ frame_count = [u \in Streams |-> IF u = w THEN 0 ELSE n]
              /\ frame_queue \in QueueLeftBy(w, frame_count)
        /\ ServiceInit
        /\ NoCallYet
        /\ EdgeAgentInit
        /\ opc = "direct"
        /\ oi = w

WatcherSpec == WatcherSpecInit /\ [][WatcherNext]_vars

\* ------------------------------------------------------------- fairness
\* What the interpreter's thread scheduling and its timers guarantee: a
\* thread that can take a step takes it, a sleep ends, join(timeout) returns.
\* A transport read of a connection nobody released may block for ever, so it
\* gets no fairness; a read of a released connection returns.
LoopStep(w, t) ==
    \/ LoopExit(w, t)
    \/ LoopRetry(w, t)
    \/ LoopRead(w, t)
    \/ RetrySleep(w, t)
    \/ SleepDone(w, t)
    \/ (cap[w] # "open" /\ (LoopConnectFail(w, t) \/ ReadFail(w, t) \/ ReadRaise(w, t)))

ServiceStep == ServiceStart \/ ServiceStartWatcher \/ ServiceRunConsumer
                 \/ ServiceStopWatcher \/ ServiceStopped

StopStep(w) == StopJoined(w) \/ StopJoinTimeout(w) \/ StopNoCap(w)
                 \/ StopHasCap(w) \/ StopRelease(w) \/ StopReleaseRaise(w)

Fairness ==
    /\ \A w \in Streams : \A t \in ThreadIds : WF_vars(LoopStep(w, t))
    /\ \A w \in Streams : WF_vars(StopStep(w))
    /\ WF_vars(ServiceStep)

FairSpec == Init /\ [][Next]_vars /\ Fairness

\* ================================================== ml_service: RiskScorer
\* Confidences and species weights are counted in hundredths, scores in
\* ten-thousandths (the four decimals score_detections rounds to).  The
\* arithmetic is exact: the last binary digit of Python's floats, which
\* decides a tie of round() and a sum that lands on a threshold, is not
\* represented.
Scale == 10000

\* RiskScorer.SPECIES_RISK, in hundredths
SPECIES_RISK ==
    [s \in {"Mastomys natalensis", "Mastomys coucha", "Rattus rattus",
            "Rattus norvegicus", "Other rodent", "Unknown"} |->
        CASE s = "Mastomys natalensis" -> 100
          [] s = "Mastomys coucha" -> 70
          [] s = "Rattus rattus" -> 30
          [] s = "Rattus norvegicus" -> 20
          [] s = "Other rodent" -> 10
          [] OTHER -> 5]

\* self.SPECIES_RISK.get(species, 0.05)
SpeciesWeight(species) ==
    IF species \in DOMAIN SPECIES_RISK THEN SPECIES_RISK[species] ELSE 5

\* "mastomys" in d.get("species", "").lower()
NamesMastomys(species) == species \in {"Mastomys natalensis", "Mastomys coucha"}

\* count_mult: 0.95 from four detections on, else COUNT_MULTIPLIERS[count]
CountMult(count) ==
    IF count >= 4 THEN 95
    ELSE CASE count = 1 -> 50 [] count = 2 -> 70 [] count = 3 -> 85 [] OTHER -> 50

\* valid_detections = [d for d in detections if d.get("confidence", 0) > 0.3]
ValidDetections(detections) ==
    SelectSeq(detections, LAMBDA d : d.confidence > 30)

\* sum(species_scores), species_scores[i] = species_weight * confidence
RECURSIVE SumSpeciesScores(_)
SumSpeciesScores(ds) ==
    IF ds = <<>> THEN 0
    ELSE SpeciesWeight(Head(ds).species) * Head(ds).confidence
         + SumSpeciesScores(Tail(ds))

\* sum(1 for d in valid_detections if d.get("confidence", 0) > 0.8)
HighConfCount(ds) == Len(SelectSeq(ds, LAMBDA d : d.confidence > 80))

\* any("mastomys" in species.lower() or is_primary_reservoir ...)
MastomysPresent(ds) ==
    \E i \in 1..Len(ds) :
        NamesMastomys(ds[i].species) \/ ds[i].is_primary_reservoir

\* mastomys_bonus = 0.3 if mastomys_present else 0.0
MastomysBonus(ds) == IF MastomysPresent(ds) THEN 3000 ELSE 0

\* A score that is not capped.
Uncapped(num, den) == num

\* min(x, 1.0) of a score num/den
CapAtOne(num, den) == IF num > Scale * den THEN Scale * den ELSE num

\* round(x, 4) of a score num/den: to the nearest ten-thousandth, ties to even
Round4(num, den) ==
    LET q == num \div den
        r == num % den
    IN  IF 2 * r < den THEN q
        ELSE IF 2 * r > den THEN q + 1
        ELSE IF q % 2 = 0 THEN q ELSE q + 1

\* RiskScorer.score_detections(detections)
score_detections(detections) ==
    IF detections = <<>> THEN 0
    ELSE LET valid_detections == ValidDetections(detections) IN
      IF valid_detections = <<>> THEN 0
      ELSE LET count == Len(valid_detections)
               \* base_risk = avg_species_risk * count_mult, over den
               den == 100 * count
               base_risk == SumSpeciesScores(valid_detections) * CountMult(count)
               mastomys_bonus == MastomysBonus(valid_detections)
               high_conf_count == HighConfCount(valid_detections)
               confidence_bonus ==
                   IF high_conf_count * 500 < 1500 THEN high_conf_count * 500 ELSE 1500
               final_risk ==
                   CapAtOne(base_risk + (mastomys_bonus + confidence_bonus) * den, den)
           IN  Round4(final_risk, den)

\* Levels with exclusive thresholds.
StrictThresholds(score) ==
    IF score > 8000 THEN "CRITICAL"
    ELSE IF score > 6000 THEN "HIGH"
    ELSE IF score > 4000 THEN "MODERATE"
    ELSE IF score > 2000 THEN "LOW"
    ELSE "MINIMAL"

\* RiskScorer._score_to_level(score)
_score_to_level(score) ==
    IF score >= 8000 THEN "CRITICAL"
    ELSE IF score >= 6000 THEN "HIGH"
    ELSE IF score >= 4000 THEN "MODERATE"
    ELSE IF score >= 2000 THEN "LOW"
    ELSE "MINIMAL"

\* ml_service/app.py: _get_risk_level(risk_score)
_get_risk_level(risk_score) ==
    IF risk_score >= 8000 THEN "CRITICAL"
    ELSE IF risk_score >= 6000 THEN "HIGH"
    ELSE IF risk_score >= 4000 THEN "MODERATE"
    ELSE IF risk_score >= 2000 THEN "LOW"
    ELSE "MINIMAL"

\* endemic_regions of score_with_context, in ten-thousandths
endemic_regions ==
    [e \in {"edo", "ondo", "ebonyi", "bauchi", "plateau", "taraba",
            "nasarawa", "benue", "kogi"} |->
        CASE e \in {"edo", "ondo"} -> 1500
          [] e = "ebonyi" -> 1200
          [] e \in {"bauchi", "plateau"} -> 1000
          [] e \in {"taraba", "nasarawa"} -> 800
          [] e = "benue" -> 700
          [] OTHER -> 600]

\* Regions a caller passes ("None": no region), each with the first key of
\* endemic_regions that its lower-cased text contains ("": none does)
RegionTexts == {"None", "Edo State", "bauchi", "Lagos"}

EndemicIn(region) ==
    CASE region = "Edo State" -> "edo"
      [] region = "bauchi" -> "bauchi"
      [] OTHER -> ""

\* geo_bonus
GeoBonus(region) ==
    IF region = "None" THEN 0
    ELSE IF EndemicIn(region) \in DOMAIN endemic_regions
           THEN endemic_regions[EndemicIn(region)]
           ELSE 0

\* Seasons a caller passes ("None": no season), as season.lower() gives them
SeasonTexts == {"None", "dry", "harmattan", "transition", "wet"}

\* Months datetime.now().month is drawn from: one inside, one outside Nov-Mar
Months == {2, 7}

\* seasonal_bonus
SeasonalBonus(season, month) ==
    IF season # "None"
      THEN IF season \in {"dry", "harmattan"} THEN 1000
           ELSE IF season = "transition" THEN 500
           ELSE 0
      ELSE IF month \in {11, 12, 1, 2, 3} THEN 800 ELSE 0

\* RiskScorer.score_with_context(detections, region=..., season=...)
score_with_context(detections, region, season, month) ==
    LET base_score == score_detections(detections)
        geo_bonus == GeoBonus(region)
        seasonal_bonus == SeasonalBonus(season, month)
        final_score == CapAtOne(base_score + geo_bonus + seasonal_bonus, 1)
    IN  [risk_score |-> Round4(final_score, 1),
         risk_level |-> _score_to_level(final_score),
         detection_risk |-> base_score,
         geographic_risk |-> geo_bonus,
         seasonal_risk |-> seasonal_bonus,
         total_detections |-> Len(detections)]

\* ml_service/app.py, POST /detect: the part of the response that is computed
\* from the detections
detect(detections) ==
    LET risk_score == score_detections(detections) IN
    [detections |-> detections,
     risk_score |-> Round4(risk_score, 1),
     risk_level |-> _get_risk_level(risk_score),
     detection_count |-> Len(detections)]

\* ============================================== capture_service: config
\* CaptureConfig.RTSP_STREAMS: the three configured streams
RTSP_STREAMS == {"Wildlife Kenya Live", "Lagos Traffic Cam", "Ibadan Botany Lab Feed"}

\* Values of the environment and of the "enabled" flags: a configuration
Configs ==
    [DATABASE_URL : {"", "postgresql://db"},
     YOLO_API_URL : {"", "http://localhost:5001"},
     enabled : SUBSET RTSP_STREAMS]

\* CaptureConfig.get_enabled_streams()
get_enabled_streams(config) == {s \in RTSP_STREAMS : s \in config.enabled}

\* CaptureConfig.validate()
validate(config) ==
    IF config.DATABASE_URL = "" THEN FALSE
    ELSE IF config.YOLO_API_URL = "" THEN FALSE
    ELSE TRUE

\* self.watchers, by the number of RTSPWatcher objects the list holds for
\* each stream; self.watchers = [] of __init__
NoWatchers == [s \in RTSP_STREAMS |-> 0]

\* SkyhawkCaptureService.initialize() on a service whose list is `watchers`:
\* its return value and self.watchers afterwards (one append per enabled stream)
initialize(config, watchers) ==
    IF ~validate(config)
      THEN [value |-> FALSE, watchers |-> watchers]
      ELSE [value |-> TRUE,
            watchers |-> [s \in RTSP_STREAMS |->
                            IF s \in get_enabled_streams(config)
                              THEN watchers[s] + 1
                              ELSE watchers[s]]]

\* The public calls of SkyhawkCaptureService
ServiceCalls == {"initialize", "start", "stop"}

\* self.watchers after one call: start() begins with self.initialize() and,
\* like stop(), only iterates over the list afterwards
WatchersAfterCall(c, config, watchers) ==
    IF c \in {"initialize", "start"}
      THEN initialize(config, watchers).watchers
      ELSE watchers

\* self.watchers after a sequence of calls on a service that begins with `watchers`
RECURSIVE WatchersAfter(_, _, _)
WatchersAfter(calls, config, watchers) ==
    IF calls = <<>>
      THEN watchers
      ELSE WatchersAfter(Tail(calls), config,
                         WatchersAfterCall(Head(calls), config, watchers))

\* ================================================== the detection records
\* What a JSON answer holds under "detections": a list, null, or no such key
DetectionsKinds == {"list", "null", "absent"}

\* inference_result.get("detections", []) / detection.get('detections', []) or []
\* of an answer [kind, detections]: the list, None for null, [] when absent
GetDetections(answer) ==
    IF answer.kind = "list" THEN [none |-> FALSE, list |-> answer.detections]
    ELSE IF answer.kind = "null" THEN [none |-> TRUE, list |-> <<>>]
    ELSE [none |-> FALSE, list |-> <<>>]

\* DetectionPusher.push_detection(frame_data, inference_result, risk_score):
\* len(None) raises, and so does formatting a risk_score that is None; the
\* except clause returns False and no record exists
push_detection(inference_result) ==
    LET got == GetDetections(inference_result) IN
    IF got.none \/ inference_result.avg_confidence = "null"
      THEN [value |-> FALSE, written |-> FALSE, detection_count |-> 0,
            detections |-> <<>>]
      ELSE [value |-> TRUE, written |-> TRUE, detection_count |-> Len(got.list),
            detections |-> got.list]

\* detection.get('metadata', {}).get('detection_count', len(detections)):
\* metadata_count is -1 when the answer carries no such count
MetadataCount(metadata_count, detections) ==
    IF metadata_count = -1 THEN Len(detections) ELSE metadata_count

\* DetectionPipeline.store_detection(detection): the payload posted to
\* detection_patterns; it is persisted when the insert answers 200 or 201
store_detection(detection, status) ==
    LET detections ==
            IF GetDetections(detection).none THEN <<>>
            ELSE GetDetections(detection).list
    IN  [value |-> status \in {200, 201},
         written |-> status \in {200, 201},
         detection_count |-> MetadataCount(detection.metadata_count, detections),
         detections |-> detections]

\* ======================================================= calls, one by one
\* Detections the calls are made with
Detections ==
    {[species |-> "Mastomys natalensis", confidence |-> 60, is_primary_reservoir |-> TRUE],
     [species |-> "Mastomys natalensis", confidence |-> 90, is_primary_reservoir |-> TRUE],
     [species |-> "Mastomys coucha", confidence |-> 81, is_primary_reservoir |-> FALSE],
     [species |-> "Rattus rattus", confidence |-> 30, is_primary_reservoir |-> FALSE]}

DetectionLists == UNION {[1..n -> Detections] : n \in 0..MaxDetections}

\* One more detection of the primary reservoir, confidence at least 0.5
MoreMastomys ==
    {[species |-> "Mastomys natalensis", confidence |-> c, is_primary_reservoir |-> TRUE]
        : c \in {50, 90}}

\* The calls that are made: a function and its arguments
PredictCalls == {[op |-> "predict", resp |-> resp] : resp \in Responses}

InitializeCalls == {[op |-> "initialize", config |-> config] : config \in Configs}

\* initialize(), start() and stop() called one after the other on a new service
ServiceCallSeqs == UNION {[1..n -> ServiceCalls] : n \in 1..MaxCalls}

ServiceCallsCalls ==
    [op : {"service_calls"}, config : Configs, calls : ServiceCallSeqs]

ScoreDetectionsCalls ==
    {[op |-> "score_detections", detections |-> ds] : ds \in DetectionLists}

\* score_detections before and after one more detection is appended
ScoreMoreCalls ==
    {[op |-> "score_more", detections |-> ds, more |-> d] :
        ds \in DetectionLists \ {<<>>}, d \in MoreMastomys}

ScoreWithContextCalls ==
    [op : {"score_with_context"}, detections : DetectionLists,
     region : RegionTexts, season : SeasonTexts, month : Months]

\* score_with_context called twice with the same arguments, the clock
\* showing month `month` at the first call and `later` at the second
ScoreAgainCalls ==
    [op : {"score_again"}, detections : DetectionLists, region : RegionTexts,
     season : SeasonTexts, month : Months, later : Months]

ScoreToLevelCalls == {[op |-> "_score_to_level", score |-> x] : x \in 0..Scale}

GetRiskLevelCalls == {[op |-> "_get_risk_level", score |-> x] : x \in 0..Scale}

DetectCalls == {[op |-> "detect", detections |-> ds] : ds \in DetectionLists}

\* Answers of a model service: "detections" and "avg_confidence" may be null
\* or missing
InferenceResults ==
    {r \in [kind : DetectionsKinds, detections : DetectionLists,
            avg_confidence : {"absent", "null", "number"}] :
        r.kind # "list" => r.detections = <<>>}

PushDetectionCalls ==
    {[op |-> "push_detection", inference_result |-> r] : r \in InferenceResults}

\* Answers handed to store_detection: metadata.detection_count is any count,
\* or missing (-1)
DetectionAnswers ==
    {r \in [kind : DetectionsKinds, detections : DetectionLists,
            metadata_count : -1..MaxDetections] :
        r.kind # "list" => r.detections = <<>>}

StoreDetectionCalls ==
    [op : {"store_detection"}, detection : DetectionAnswers, status : {201, 500}]

CallInit ==
    /\ WatcherInit /\ NoFramesYet /\ ServiceInit /\ opc = "init" /\ oi = 1
    /\ EdgeAgentInit
    /\ ret = NoRet
    /\ call \in PredictCalls \cup InitializeCalls \cup ServiceCallsCalls
                \cup ScoreDetectionsCalls
                \cup ScoreMoreCalls \cup ScoreWithContextCalls \cup ScoreAgainCalls
                \cup ScoreToLevelCalls \cup GetRiskLevelCalls \cup DetectCalls
                \cup PushDetectionCalls \cup StoreDetectionCalls

Pending(op) == call.op = op /\ ret = NoRet

CallPredict ==
    /\ Pending("predict")
    /\ ret' = predict(call.resp)
    /\ UNCHANGED <<pvars, call, evars>>

CallInitialize ==
    /\ Pending("initialize")
    /\ ret' = initialize(call.config, NoWatchers)
    /\ UNCHANGED <<pvars, call, evars>>

CallServiceCalls ==
    /\ Pending("service_calls")
    /\ ret' = [watchers |-> WatchersAfter(call.calls, call.config, NoWatchers)]
    /\ UNCHANGED <<pvars, call, evars>>

CallScoreDetections ==
    /\ Pending("score_detections")
    \* the value returned and the bonus that went into it
    /\ ret' = [value |-> score_detections(call.detections),
               mastomys_bonus |-> MastomysBonus(ValidDetections(call.detections))]
    /\ UNCHANGED <<pvars, call, evars>>

CallScoreMore ==
    /\ Pending("score_more")
    /\ ret' = [before |-> score_detections(call.detections),
               after |-> score_detections(Append(call.detections, call.more))]
    /\ UNCHANGED <<pvars, call, evars>>

CallScoreWithContext ==
    /\ Pending("score_with_context")
    /\ ret' = score_with_context(call.detections, call.region, call.season,
                                 call.month)
    /\ UNCHANGED <<pvars, call, evars>>

CallScoreAgain ==
    /\ Pending("score_again")
    /\ ret' = [first |-> score_with_context(call.detections, call.region,
                                            call.season, call.month),
               second |-> score_with_context(call.detections, call.region,
                                             call.season, call.later)]
    /\ UNCHANGED <<pvars, call, evars>>

CallScoreToLevel ==
    /\ Pending("_score_to_level")
    /\ ret' = [value |-> _score_to_level(call.score)]
    /\ UNCHANGED <<pvars, call, evars>>

CallGetRiskLevel ==
    /\ Pending("_get_risk_level")
    /\ ret' = [value |-> _get_risk_level(call.score)]
    /\ UNCHANGED <<pvars, call, evars>>

CallDetect ==
    /\ Pending("detect")
    /\ ret' = detect(call.detections)
    /\ UNCHANGED <<pvars, call, evars>>

CallPushDetection ==
    /\ Pending("push_detection")
    /\ ret' = push_detection(call.inference_result)
    /\ UNCHANGED <<pvars, call, evars>>

CallStoreDetection ==
    /\ Pending("store_detection")
    /\ ret' = store_detection(call.detection, call.status)
    /\ UNCHANGED <<pvars, call, evars>>

CallNext ==
    \/ CallPredict
    \/ CallInitialize
    \/ CallServiceCalls
    \/ CallScoreDetections
    \/ CallScoreMore
    \/ CallScoreWithContext
    \/ CallScoreAgain
    \/ CallScoreToLevel
    \/ CallGetRiskLevel
    \/ CallDetect
    \/ CallPushDetection
    \/ CallStoreDetection

\* Each function called once, with arguments of every kind.
CallSpec == CallInit /\ [][CallNext]_vars

\* ================================================== edge: EdgeSyncAgent
\* A record is one camera detection or sensor reading, told apart by the
\* cycle that collected it and its place in that cycle's data; `enriched`
\* tells whether _enrich_record has been applied to it.

\* _get_camera_detections(): n detections, n = random.randint(...)
CameraDetections(cycle, n) ==
    [i \in 1..n |-> [kind |-> "camera", cycle |-> cycle, index |-> i,
                     enriched |-> FALSE]]

\* _get_sensor_readings(): one reading
SensorReadings(cycle) ==
    <<[kind |-> "environmental", cycle |-> cycle, index |-> 1, enriched |-> FALSE]>>

\* _collect_local_data(): camera data, sensor data, then the offline buffer;
\* [] when collecting raises
_collect_local_data(cycle, n, raised, buffer) ==
    IF raised THEN <<>>
    ELSE CameraDetections(cycle, n) \o SensorReadings(cycle) \o buffer

\* _process_field_data(raw_data): the collected records all carry the
\* required fields and coordinates in range, so each one is enriched and kept
_process_field_data(raw_data) ==
    [i \in 1..Len(raw_data) |-> [raw_data[i] EXCEPT !.enriched = TRUE]]

\* _sync_to_central(data)['success'] for each behaviour of the request:
\* True without a request when there is no data, True on status 200,
\* False on any other status and on any exception
_sync_to_central(data, resp) ==
    IF data = <<>> THEN TRUE
    ELSE resp.exception = "none" /\ resp.status = 200

\* self.offline_buffer.extend(processed_data)
BufferExtended(buffer, data) == buffer \o data

\* start_sync_service() is called: self.is_running = True
StartSyncService ==
    /\ epc = "idle"
    /\ is_running' = TRUE
    /\ epc' = "loop"
    /\ UNCHANGED <<offline_buffer, cycles, local_data, processed_data, sync_result>>
    /\ UNCHANGED <<pvars, fvars>>

\* while self.is_running: holds, a cycle begins
SyncCycleBegin ==
    /\ epc = "loop"
    /\ is_running
    /\ cycles < MaxCycles
    /\ cycles' = cycles + 1
    /\ epc' = "collect"
    /\ UNCHANGED <<is_running, offline_buffer, local_data, processed_data, sync_result>>
    /\ UNCHANGED <<pvars, fvars>>

\* while self.is_running: fails, start_sync_service returns
SyncServiceReturn ==
    /\ epc = "loop"
    /\ ~is_running
    /\ epc' = "returned"
    /\ UNCHANGED <<is_running, offline_buffer, cycles, local_data, processed_data,
                   sync_result>>
    /\ UNCHANGED <<pvars, fvars>>

\* local_data = await self._collect_local_data()
CollectLocalData ==
    /\ epc = "collect"
    /\ \E n \in 0..MaxCameraDetections : \E raised \in BOOLEAN :
          local_data' = _collect_local_data(cycles, n, raised, offline_buffer)
    /\ epc' = "process"
    /\ UNCHANGED <<is_running, offline_buffer, cycles, processed_data, sync_result>>
    /\ UNCHANGED <<pvars, fvars>>

\* processed_data = await self._process_field_data(local_data)
ProcessFieldData ==
    /\ epc = "process"
    /\ processed_data' = _process_field_data(local_data)
    /\ epc' = "sync"
    /\ UNCHANGED <<is_running, offline_buffer, cycles, local_data, sync_result>>
    /\ UNCHANGED <<pvars, fvars>>

\* sync_result = await self._sync_to_central(processed_data);
\* on success self.offline_buffer.clear(), else
\* self.offline_buffer.extend(processed_data); then asyncio.sleep(sync_interval)
SyncToCentral ==
    /\ epc = "sync"
    /\ \E resp \in Responses :
          /\ sync_result' = _sync_to_central(processed_data, resp)
          /\ offline_buffer' = IF sync_result'
                                 THEN <<>>
                                 ELSE BufferExtended(offline_buffer, processed_data)
    /\ epc' = "sleep"
    /\ UNCHANGED <<is_running, cycles, local_data, processed_data>>
    /\ UNCHANGED <<pvars, fvars>>

\* await asyncio.sleep(self.sync_interval) is over
SyncSleepDone ==
    /\ epc = "sleep"
    /\ epc' = "loop"
    /\ UNCHANGED <<is_running, offline_buffer, cycles, local_data, processed_data,
                   sync_result>>
    /\ UNCHANGED <<pvars, fvars>>

\* stop_sync_service(), called while the service coroutine is suspended
StopSyncService ==
    /\ epc \in {"sync", "sleep"}
    /\ is_running
    /\ is_running' = FALSE
    /\ UNCHANGED <<offline_buffer, epc, cycles, local_data, processed_data,
                   sync_result>>
    /\ UNCHANGED <<pvars, fvars>>

EdgeNext ==
    \/ StartSyncService
    \/ SyncCycleBegin
    \/ SyncServiceReturn
    \/ CollectLocalData
    \/ ProcessFieldData
    \/ SyncToCentral
    \/ SyncSleepDone
    \/ StopSyncService

\* The edge agent alone: start_edge_sync(), sync cycles, stop_edge_sync()
EdgeSpec == Init /\ [][EdgeNext]_vars

\* ================================================================ claims

\* C1 (as claimed). A watcher that reads a frame while the frame queue is
\* full drops it and carries on at its sample cadence: the sleep that follows
\* the failed enqueue is the sample interval.
C1_FullQueueKeepsCadence ==
    [][\A w \in Streams : \A t \in ThreadIds :
          (/\ tpc[w][t] = "read"
           /\ tpc'[w][t] # "read"
           /\ frame_count'[w] # frame_count[w]
           /\ QueueFull(frame_queue))
          => SleepSeconds(tpc'[w][t]) = INFERENCE_INTERVAL]_vars

\* C2. While the service runs, the consumer is inside its loop whatever its
\* frames raised, and from the except clause it goes back to the loop test.
ConsumerInLoop == {"loop", "poll_sleep", "infer", "check_result", "push",
                   "push_failed", "except_sleep"}

C2_ConsumerSurvivesFrameException ==
    /\ [](opc = "consuming" => cons \in ConsumerInLoop)
    /\ [][(cons = "except_sleep" /\ cons' # cons /\ opc' = "consuming")
            => cons' = "loop"]_vars

\* C2 witness: an exception of a frame's inference was caught while frames
\* wait in the queue.
C2_Witness ==
    /\ opc = "consuming"
    /\ cons = "except_sleep"
    /\ frame_queue # <<>>

\* C3 (as claimed). Once SkyhawkCaptureService.stop() is under way it
\* returns and every watcher's loop thread ends.
C3_StopEndsEveryWatcher ==
    (opc = "stopping") ~>
        (opc = "stopped" /\ \A w \in Streams : \A t \in ThreadIds : ~Alive(w, t))

\* C4 (as claimed). When the consumer loop has ended no frame is left in
\* the queue.
C4_ConsumerDrainsBeforeExit == cons = "ended" => frame_queue = <<>>

\* C5 (as claimed). While the service runs, a watcher without a connection
\* and with fewer than max_retries consecutive failures has a loop that
\* retries.
C5_FewFailuresStillRetried ==
    \A w \in Streams :
        (opc = "consuming" /\ cap[w] = "none" /\ connection_attempts[w] < max_retries)
        => \E t \in ThreadIds : Alive(w, t)

\* Ceilings a deployment might configure for the reconnect wait; the watcher
\* reads none of them.
BackoffCeilings == {RetrySleepSeconds, 2 * RetrySleepSeconds}

\* ws grows strictly until it reaches ceiling c and never exceeds it.
GrowsToCeiling(ws, c) ==
    \A i \in 1..Len(ws) :
        /\ ws[i] <= c
        /\ i < Len(ws) => (ws[i] < ws[i + 1] \/ ws[i] = c)

\* C6 (as claimed). Whatever ceiling is configured, the waits before
\* consecutive failed connection attempts grow strictly until they reach it
\* and never exceed it.
C6_BackoffGrowsToCeiling ==
    \A w \in Streams : \A c \in BackoffCeilings : GrowsToCeiling(waits[w], c)

\* C7 (as claimed). stop() on a watcher never raises, and when stop() has
\* returned and the loop has ended the watcher holds no open connection.
C7_StopSafeAndReleases ==
    \A w \in Streams :
        /\ cpc[w] # "stop_raised"
        /\ (cpc[w] = "idle" /\ ~running[w] /\ \A t \in ThreadIds : ~Alive(w, t))
              => cap[w] # "open"

\* C8. A start() call that finds the watcher running returns at once and
\* changes none of the watcher's fields and threads.
C8_StartOnRunningIsNoop ==
    [][\A w \in Streams :
          (cpc[w] = "start_check" /\ running[w] /\ cpc'[w] # cpc[w])
          => /\ cpc'[w] = "idle"
             /\ running'[w] = running[w]
             /\ cap'[w] = cap[w]
             /\ thread'[w] = thread[w]
             /\ tpc'[w] = tpc[w]
             /\ frame_count'[w] = frame_count[w]
             /\ connection_attempts'[w] = connection_attempts[w]]_vars

\* C8 witness: start() has been entered on a watcher that is running, its
\* loop thread alive and its connection open.
C8_Witness ==
    \E w \in Streams :
        /\ cpc[w] = "start_check"
        /\ running[w]
        /\ cap[w] = "open"
        /\ thread[w] # 0
        /\ Alive(w, thread[w])

\* C9. Every frame the consumer dequeues has a frame_count that is
\* non-negative and greater than that of the frame of the same stream it
\* dequeued before.
C9_DequeuedSeqIncreasing ==
    [][(cons = "loop" /\ Len(frame_queue') < Len(frame_queue))
         => /\ Head(frame_queue).frame_count >= 0
            /\ Head(frame_queue).frame_count > lastSeq[Head(frame_queue).stream]]_vars

\* C9 witness: the consumer has dequeued the second frame of one stream
\* after frames of every other stream.
C9_Witness ==
    \E w \in Streams :
        /\ lastSeq[w] >= 2
        /\ \A u \in Streams : lastSeq[u] >= 1

\* C10. The frame queue never holds more frames than its capacity.
C10_QueueWithinCapacity == Len(frame_queue) <= QueueMaxsize

\* C10 witness: the queue is full, one watcher has just had a frame refused
\* and another is about to read its next frame.
C10_Witness ==
    /\ Len(frame_queue) = QueueMaxsize
    /\ \E w \in Streams : \E t \in ThreadIds : tpc[w][t] = "err_sleep" /\ cap[w] = "open"
    /\ \E w \in Streams : \E t \in ThreadIds : tpc[w][t] = "read" /\ cap[w] = "open"

\* C11 (as claimed). predict() returns None and raises nothing when the
\* model service answers with a status other than 200 or the request times out.
C11_PredictFailsWithoutRaising ==
    (/\ call.op = "predict"
     /\ ret # NoRet
     /\ \/ call.resp.exception = "TimeoutError"
        \/ (call.resp.exception = "none" /\ call.resp.status # 200))
    => (ret.raised = "none" /\ ret.value = "None")

\* C12. predict() is entered only with a frame that has just been dequeued,
\* a push is entered only with a result of predict(), and after a failed
\* inference (None returned, or an exception caught) the consumer goes back
\* to the loop test with no frame in hand.
C12_FailedInferenceSkipsFrame ==
    [][/\ (cons' = "infer" /\ cons # "infer")
            => Len(frame_queue') < Len(frame_queue)
       /\ (cons' = "push" /\ cons # "push") => result = "dict"
       /\ (/\ \/ (cons = "check_result" /\ result = "None")
              \/ cons = "except_sleep"
           /\ cons' # cons
           /\ opc' = "consuming")
            => (cons' = "loop" /\ cur' = NoFrame)]_vars

\* C12 witness: predict() has returned None for a frame and another frame
\* waits in the queue.
C12_Witness ==
    /\ cons = "check_result"
    /\ result = "None"
    /\ cur # NoFrame
    /\ frame_queue # <<>>

\* C13 (as claimed). initialize() returns False exactly when no stream is
\* enabled or DATABASE_URL or YOLO_API_URL is empty.
C13_InitializeFailsIff ==
    (call.op = "initialize" /\ ret # NoRet)
    => (ret.value = FALSE
          <=> \/ call.config.enabled = {}
              \/ call.config.DATABASE_URL = ""
              \/ call.config.YOLO_API_URL = "")

\* C14 (as claimed). The first frame of a stream that reaches the motion
\* gate is reported as having motion: the consumer goes on to inference.
C14_FirstFrameHasMotion ==
    [][(/\ cons = "loop"
        /\ Len(frame_queue') < Len(frame_queue)
        /\ lastSeq[Head(frame_queue).stream] = 0)
         => cons' = "infer"]_vars

\* C15. score_detections returns a score between 0 and 1, and so does
\* score_with_context as risk_score, for every region and season.
C15_ScoreWithinUnitInterval ==
    /\ (call.op = "score_detections" /\ ret # NoRet)
          => (0 <= ret.value /\ ret.value <= Scale)
    /\ (call.op = "score_with_context" /\ ret # NoRet)
          => (0 <= ret.risk_score /\ ret.risk_score <= Scale)

\* C15 witness: the detection, geographic and seasonal risks of a call add
\* up to more than 1.
C15_Witness ==
    /\ call.op = "score_with_context"
    /\ ret # NoRet
    /\ ret.detection_risk + ret.geographic_risk + ret.seasonal_risk > Scale

\* C16 (as claimed). One more detection of Mastomys natalensis with
\* confidence at least 0.5 never lowers the score of a list that is not empty.
C16_MoreMastomysNeverLowers ==
    (call.op = "score_more" /\ ret # NoRet) => ret.after >= ret.before

\* No detection of ds has a confidence above 0.3.
NoneAboveThreshold(ds) == \A i \in 1..Len(ds) : ds[i].confidence <= 30

\* C17 (as claimed). With no detection of confidence above 0.3 the score is
\* 0 and the level MINIMAL, from score_detections and from score_with_context
\* with any region and season.
C17_NothingValidIsMinimal ==
    /\ (/\ call.op = "score_detections"
        /\ ret # NoRet
        /\ NoneAboveThreshold(call.detections))
          => (ret.value = 0 /\ _score_to_level(ret.value) = "MINIMAL")
    /\ (/\ call.op = "score_with_context"
        /\ ret # NoRet
        /\ NoneAboveThreshold(call.detections))
          => (ret.risk_score = 0 /\ ret.risk_level = "MINIMAL")

\* The detection list of one Mastomys natalensis of confidence 0.9.
OneMastomys ==
    <<[species |-> "Mastomys natalensis", confidence |-> 90,
       is_primary_reservoir |-> TRUE]>>

\* C18. _score_to_level and _get_risk_level give CRITICAL from 0.8, HIGH from
\* 0.6, MODERATE from 0.4, LOW from 0.2 and MINIMAL below; one Mastomys
\* natalensis of confidence 0.9 scores 0.80 and is CRITICAL.
C18_LevelsByInclusiveThresholds ==
    /\ (call.op \in {"_score_to_level", "_get_risk_level"} /\ ret # NoRet)
          => /\ ret.value = "CRITICAL" <=> call.score >= 8000
             /\ ret.value = "HIGH" <=> (6000 <= call.score /\ call.score < 8000)
             /\ ret.value = "MODERATE" <=> (4000 <= call.score /\ call.score < 6000)
             /\ ret.value = "LOW" <=> (2000 <= call.score /\ call.score < 4000)
             /\ ret.value = "MINIMAL" <=> call.score < 2000
    /\ (call.op = "score_detections" /\ ret # NoRet /\ call.detections = OneMastomys)
          => ret.value = 4500 + 3000 + 500
    /\ (call.op = "detect" /\ ret # NoRet /\ call.detections = OneMastomys)
          => (ret.risk_score = 8000 /\ ret.risk_level = "CRITICAL")

\* C18 witness: the service has scored the one Mastomys natalensis of
\* confidence 0.9 at the CRITICAL threshold.
C18_Witness ==
    /\ call.op = "detect"
    /\ call.detections = OneMastomys
    /\ ret # NoRet
    /\ ret.risk_score = 8000

C20_CountMatchesDetections ==
    (/\ call.op \in {"push_detection", "store_detection"}
     /\ ret # NoRet
     /\ ret.written)
    => ret.detection_count = Len(ret.detections)

\* stop() has returned for watcher w and no start() has been entered since:
\* a loop thread exists, self.running is False and no call is in progress.
StopReturned(w) ==
    /\ ~running[w]
    /\ cpc[w] = "idle"
    /\ thread[w] # 0

\* A step in which watcher w puts a frame on the frame queue.
Enqueues(w) ==
    /\ Len(frame_queue') = Len(frame_queue) + 1
    /\ frame_queue'[Len(frame_queue')].stream = w

\* C21 (as claimed). Once stop() has returned for a watcher, that watcher
\* puts no further frame on the frame queue.
C21_NoEnqueueAfterStop ==
    [][\A w \in Streams : StopReturned(w) => ~Enqueues(w)]_vars

\* C22 (as claimed). Every frame in the frame queue has passed the motion
\* gate: the motion check of a frame taken from the queue is never false.
C22_QueuedFramesPassedGate ==
    [][Len(frame_queue') < Len(frame_queue) => cur' = Head(frame_queue)]_vars

\* C23 (as claimed). The previous frame the motion gate holds when it
\* compares a frame comes from the same stream as that frame.
C23_GateStatePerStream ==
    [][(Len(frame_queue') < Len(frame_queue) /\ prev_frame # 0)
          => prev_frame = Head(frame_queue).stream]_vars

\* C24 (as claimed). After initialize() and any further start() and stop()
\* calls the service holds exactly one watcher for each enabled stream and
\* none for the others.
C24_OneWatcherPerStream ==
    (/\ call.op = "service_calls"
     /\ ret # NoRet
     /\ validate(call.config)
     /\ \E i \in DOMAIN call.calls : call.calls[i] \in {"initialize", "start"})
    => \A s \in RTSP_STREAMS :
          ret.watchers[s] = IF s \in get_enabled_streams(call.config) THEN 1 ELSE 0

\* C25. At most one call of predict() and at most one call of
\* push_detection() is in flight at any time, however many watchers feed
\* the queue.
C25_OneInFlight ==
    /\ in_flight.predict <= 1
    /\ in_flight.push_detection <= 1

\* C25 witness: a push is in flight while both watchers have a live loop
\* thread and a frame waits in the queue; no inference runs beside it.
C25_Witness ==
    /\ in_flight = [predict |-> 0, push_detection |-> 1]
    /\ \A w \in Streams : \E t \in ThreadIds : Alive(w, t)
    /\ frame_queue # <<>>

\* C26 (as claimed). Two calls of score_with_context with the same
\* detections, region and season return the same assessment, whenever they
\* are made.
C26_ScorerDeterministic ==
    (call.op = "score_again" /\ ret # NoRet) => ret.first = ret.second

\* C27 (as claimed). The 0.3 bonus goes into the score exactly when a
\* detection of confidence above 0.3 is flagged is_primary_reservoir.
C27_BonusIffFlagged ==
    (call.op = "score_detections" /\ ret # NoRet)
    => (ret.mastomys_bonus = 3000
          <=> \E i \in DOMAIN call.detections :
                 /\ call.detections[i].confidence > 30
                 /\ call.detections[i].is_primary_reservoir)

\* C28 (as claimed). A watcher never has more than one live loop thread,
\* whatever start() and stop() calls are made on it.
C28_OneLoopThread ==
    \A w \in Streams : Cardinality({t \in ThreadIds : Alive(w, t)}) <= 1

\* C29 (as claimed). While a watcher is running, the iteration a loop
\* thread is about to begin leads it into a blocking call (sleep and
\* connect, or read) or to a frame put on the queue: it cannot come back to
\* the loop test without having paused.
C29_EveryIterationPauses ==
    \A w \in Streams : \A t \in ThreadIds :
        (tpc[w][t] = "loop" /\ running[w]) => ~ENABLED LoopGivenUp(w, t)

\* Two places of a list hold the same record (the same reading of the same cycle).
SameRecord(a, b) == a.kind = b.kind /\ a.cycle = b.cycle /\ a.index = b.index

\* C30 (as claimed). The offline buffer of the edge agent never holds a
\* record twice, and it is empty when the last sync succeeded.
C30_BufferHoldsEachOnce ==
    /\ \A i \in DOMAIN offline_buffer : \A j \in DOMAIN offline_buffer :
          i # j => ~SameRecord(offline_buffer[i], offline_buffer[j])
    /\ (epc = "sleep" /\ sync_result = TRUE) => offline_buffer = <<>>
====
